---- MODULE Spec2Model ----
(***************************************************************************)
(* LifeOS backend (backend/services.py, backend/main.py, backend/models.py) *)
(* as a state machine: the tables of models.py are the state, every service *)
(* function is one action, and the pure computations (_calculate_streak,    *)
(* the rates and scores) are operators.                                     *)
(*                                                                          *)
(* Dates are day numbers.  Day 0 is Monday 2024-05-27, so date.weekday()    *)
(* is d % 7 (0 = Monday) and 2024-06-12, a Wednesday, is day 16.            *)
(***************************************************************************)
EXTENDS Integers, Sequences, FiniteSets, Bags, TLC

\* ------------------------------------------------------------------------
\* Bounds of the model
\* ------------------------------------------------------------------------
\* Spec explores every run of at most MaxSteps steps (service calls and day
\* changes).
MaxSteps == 5

\* First value of date.today() in Spec: Tuesday 2024-06-11.
StartDay == (2 * 7) + 1

\* The registered users (table users), and those who send requests.
Users == {1, 2, 3}
Clients == {1, 2}

\* SpecStreak draws today and the log dates from 0..StreakDays.
StreakDays == 7

\* SpecApi and SpecFrame explore every run of at most MaxApiSteps requests
\* and day changes; requests that only read are not counted.
MaxApiSteps == 4

\* SpecWeek and SpecDash: the most habits and habit logs a run creates.
MaxWeekHabits == 1
MaxWeekLogs == 8

\* ------------------------------------------------------------------------
\* Program constants
\* ------------------------------------------------------------------------
DaysPerWeek == 7
WindowSpan == 6
TaskWeight == 6
HabitWeight == 4

VARIABLES
  today,           \* date.today()
  tasks,           \* table tasks: sequence of rows, id = index
  habits,          \* table habits: sequence of rows, id = index
  habit_logs,      \* table habit_logs: bag of rows (habit_id, date, completed)
  weekly_reports,  \* table weekly_reports: sequence of rows, id = index
  last,            \* the most recent generate_weekly_report call and what it
                   \* returned, NoCall once a task, habit or log changed
  steps,           \* number of steps taken so far
  out,             \* what the last _calculate_streak (SpecStreak) or
                   \* get_dashboard (SpecDash) call returned, <<>> before
  pc,              \* SpecJobs: where the manual request and the batch job are
  local,           \* SpecJobs: what each of the two read in its own session
  batch,           \* SpecJobs: the loop of run_weekly_reports
  refresh_tokens   \* table refresh_tokens: sequence of rows, id = index

jobvars == <<pc, local, batch>>

authvars == <<refresh_tokens>>

vars == <<today, tasks, habits, habit_logs, weekly_reports, last, steps,
          out, pc, local, batch, refresh_tokens>>

\* last when the most recent call was not generate_weekly_report.
NoCall == [user |-> 0, existed |-> FALSE]

\* ------------------------------------------------------------------------
\* Table users (models.User).  name is NOT NULL but may be empty.
\* ------------------------------------------------------------------------
UserName(u) == IF u = 2 THEN "" ELSE "ann"
UserEmailLocal(u) == IF u = 2 THEN "bob" ELSE "ann.lee"

\* db.query(User).all()
get_all_users == <<1, 2, 3>>

\* ------------------------------------------------------------------------
\* Python arithmetic
\* ------------------------------------------------------------------------
\* round(n / d) for n >= 0, d > 0: Python rounds halves to the even integer.
PyRound(n, d) ==
  LET q == n \div d
      r == n % d
  IN  IF 2 * r < d THEN q
      ELSE IF 2 * r > d THEN q + 1
      ELSE IF q % 2 = 0 THEN q ELSE q + 1

Weekday(d) == d % DaysPerWeek

RECURSIVE SumCopies(_, _)
SumCopies(B, S) ==
  IF S = {} THEN 0
  ELSE LET r == CHOOSE x \in S : TRUE
       IN  CopiesIn(r, B) + SumCopies(B, S \ {r})

RECURSIVE Repeat(_, _)
Repeat(x, n) == IF n = 0 THEN <<>> ELSE <<x>> \o Repeat(x, n - 1)

\* ------------------------------------------------------------------------
\* Streak calculator
\* ------------------------------------------------------------------------
\* Mutant of NextCheck: the expected date is not moved back.
NextCheck_Stuck(check_date) == check_date

\* check_date -= timedelta(days=1)
NextCheck(check_date) == check_date - 1

\* Mutant of StreakLoop: a log later than the expected date that is not
\* today's ends the walk.
RECURSIVE StreakLoop_Break(_, _, _, _, _, _, _)
StreakLoop_Break(logs, i, streak, is_logged_today, check_date, skipped, td) ==
  IF i > Len(logs) THEN <<streak, is_logged_today, skipped>>
  ELSE IF logs[i] = td
         THEN StreakLoop_Break(logs, i + 1, streak + 1, TRUE, td - 1, skipped,
                               td)
  ELSE IF logs[i] = check_date
         THEN StreakLoop_Break(logs, i + 1, streak + 1, is_logged_today,
                               NextCheck(check_date), skipped, td)
  ELSE <<streak, is_logged_today, skipped>>

\* The body of the for loop of _calculate_streak, from log i on.  The result
\* is <<streak, is_logged_today, skipped>>, skipped counting the iterations
\* in which none of the three branches was taken.
RECURSIVE StreakLoop(_, _, _, _, _, _, _)
StreakLoop(logs, i, streak, is_logged_today, check_date, skipped, td) ==
  IF i > Len(logs) THEN <<streak, is_logged_today, skipped>>
  ELSE IF logs[i] = td
         THEN StreakLoop(logs, i + 1, streak + 1, TRUE, td - 1, skipped, td)
  ELSE IF logs[i] = check_date
         THEN StreakLoop(logs, i + 1, streak + 1, is_logged_today,
                         NextCheck(check_date), skipped, td)
  ELSE IF logs[i] < check_date
         THEN <<streak, is_logged_today, skipped>>
  ELSE StreakLoop(logs, i + 1, streak, is_logged_today, check_date,
                  skipped + 1, td)

\* Mutant of calculate_streak: the walk starts at yesterday.
calculate_streak_FromYesterday(logs, td) ==
  LET w == StreakLoop(logs, 1, 0, FALSE, td - 1, 0, td)
  IN  <<w[1], w[2]>>

\* The walk of _calculate_streak over logs, the sequence of the dates of the
\* completed logs as the query returned them.
streak_walk(logs, td) == StreakLoop(logs, 1, 0, FALSE, td, 0, td)

\* _calculate_streak(logs, today): return streak, is_logged_today
calculate_streak(logs, td) ==
  LET w == streak_walk(logs, td)
  IN  <<w[1], w[2]>>

\* ------------------------------------------------------------------------
\* Queries
\* ------------------------------------------------------------------------
\* db.query(Task).filter(user_id == u, is_deleted == False)
ActiveTasks(u) ==
  {i \in DOMAIN tasks : tasks[i].user_id = u /\ ~tasks[i].is_deleted}

\* Mutant of ActiveHabits: the deleted habits are kept.
ActiveHabits_WithDeleted(u) ==
  {i \in DOMAIN habits : habits[i].user_id = u}

\* db.query(Habit).filter(user_id == u, is_deleted == False)
ActiveHabits(u) ==
  {i \in DOMAIN habits : habits[i].user_id = u /\ ~habits[i].is_deleted}

\* Mutant of FindTask: the lookup does not filter on user_id.
FindTask_AnyOwner(id, u) ==
  id \in DOMAIN tasks /\ ~tasks[id].is_deleted

\* ... .filter(id == x, user_id == u, is_deleted == False).first()
FindTask(id, u) == id \in ActiveTasks(u)

\* Mutant of FindHabit: the lookup does not filter on is_deleted.
FindHabit_WithDeleted(id, u) ==
  id \in DOMAIN habits /\ habits[id].user_id = u

FindHabit(id, u) == id \in ActiveHabits(u)

\* The distinct rows of habit_logs with completed == True of habit h.
CompletedRows(h) ==
  {r \in BagToSet(habit_logs) : r.habit_id = h /\ r.completed}

\* ... .order_by(HabitLog.date.desc()).all(), as the sequence of the dates.
RECURSIVE DatesDesc(_)
DatesDesc(S) ==
  IF S = {} THEN <<>>
  ELSE LET m == CHOOSE x \in S : \A y \in S : y.date <= x.date
       IN  Repeat(m.date, CopiesIn(m, habit_logs)) \o DatesDesc(S \ {m})

CompletedLogDates(h) == DatesDesc(CompletedRows(h))

HabitStreak(h, td) == calculate_streak(CompletedLogDates(h), td)

\* ------------------------------------------------------------------------
\* Weekly report generator: the computation of generate_weekly_report
\* ------------------------------------------------------------------------
week_end(td) == td - 1

\* Mutant of week_start: six days back from today instead of from week_end.
week_start_FromToday(td) == td - WindowSpan

week_start(td) == week_end(td) - WindowSpan

\* sum(1 for t in all_tasks if t.status == 'completed')
CompletedTasks(u) ==
  Cardinality({i \in ActiveTasks(u) : tasks[i].status = "completed"})

\* Mutant of ReportLogRows: the window has no upper end.
ReportLogRows_NoUpper(u, ws, we) ==
  {r \in BagToSet(habit_logs) :
     /\ r.habit_id \in ActiveHabits(u)
     /\ r.completed
     /\ r.date >= ws}

\* The HabitLog rows joined with Habit that the report counts: the habit is
\* u's and not deleted, the log is completed and dated within [ws, we].
ReportLogRows(u, ws, we) ==
  {r \in BagToSet(habit_logs) :
     /\ r.habit_id \in ActiveHabits(u)
     /\ r.completed
     /\ r.date >= ws
     /\ r.date <= we}

report_logs_this_week(u, td) ==
  SumCopies(habit_logs, ReportLogRows(u, week_start(td), week_end(td)))

possible_logs(total_habits) == total_habits * DaysPerWeek

\* Mutant of RatePercent: the quotient is cut off instead of rounded.
RatePercent_Floor(a, b) == IF b # 0 THEN (a * 100) \div b ELSE 0

\* round((a / b * 100) if b else 0)
RatePercent(a, b) == IF b # 0 THEN PyRound(a * 100, b) ELSE 0

\* round((task_rate * 0.6) + (habit_rate * 0.4))
weekly_score(task_rate, habit_rate) ==
  PyRound((TaskWeight * task_rate) + (HabitWeight * habit_rate), 10)

NoHabit == ""

\* The loop over all_habits that keeps the first habit with the greatest
\* streak; hs is the sequence of the habit ids still to visit.
RECURSIVE BestLoop(_, _, _, _)
BestLoop(hs, best_habit, best_streak, td) ==
  IF hs = <<>> THEN [habit |-> best_habit, streak |-> best_streak]
  ELSE LET streak == HabitStreak(Head(hs), td)[1]
       IN  IF streak > best_streak
             THEN BestLoop(Tail(hs), habits[Head(hs)].name, streak, td)
             ELSE BestLoop(Tail(hs), best_habit, best_streak, td)

\* A set of row ids as the sequence a query without ORDER BY returns.
RECURSIVE IdSeq(_)
IdSeq(S) ==
  IF S = {} THEN <<>>
  ELSE LET m == CHOOSE x \in S : \A y \in S : x <= y
       IN  <<m>> \o IdSeq(S \ {m})

\* name = user.name or user.email.split('@')[0]
DisplayName(u) == IF UserName(u) # "" THEN UserName(u) ELSE UserEmailLocal(u)

Opening(score) ==
  IF score >= 80 THEN "outstanding"
  ELSE IF score >= 60 THEN "solid"
  ELSE IF score >= 40 THEN "decent"
  ELSE "tough"

\* Everything generate_weekly_report computes before it touches the
\* WeeklyReport table.  The report text is the record of the values the
\* f-string interpolates.
ComputeReport(u, td) ==
  LET ws == week_start(td)
      we == week_end(td)
      completed_this_week == CompletedTasks(u)
      total_tasks == Cardinality(ActiveTasks(u))
      logs_this_week == report_logs_this_week(u, td)
      total_habits == Cardinality(ActiveHabits(u))
      possible == possible_logs(total_habits)
      habit_rate == RatePercent(logs_this_week, possible)
      task_rate == RatePercent(completed_this_week, total_tasks)
      score == weekly_score(task_rate, habit_rate)
      best == BestLoop(IdSeq(ActiveHabits(u)), NoHabit, 0, td)
      text == [opening |-> Opening(score),
               name |-> DisplayName(u),
               completed |-> completed_this_week,
               total |-> total_tasks,
               task_rate |-> task_rate,
               logs |-> logs_this_week,
               possible |-> possible,
               habit_rate |-> habit_rate,
               score |-> score,
               best_habit |-> IF best.habit # NoHabit THEN best.habit ELSE NoHabit,
               best_streak |-> IF best.habit # NoHabit THEN best.streak ELSE 0,
               week_start |-> ws,
               week_end |-> we]
  IN  [week_start |-> ws, week_end |-> we, report |-> text, score |-> score]

\* Mutant of ExistingReports: the lookup compares week_end with week_start.
ExistingReports_ByWeekEnd(u, ws) ==
  {i \in DOMAIN weekly_reports :
     weekly_reports[i].user_id = u /\ weekly_reports[i].week_end = ws}

\* Mutant of ExistingReports: the lookup forgets the user.
ExistingReports_AnyUser(u, ws) ==
  {i \in DOMAIN weekly_reports : weekly_reports[i].week_start = ws}

\* db.query(WeeklyReport).filter(user_id == u, week_start == ws): the ids.
ExistingReports(u, ws) ==
  {i \in DOMAIN weekly_reports :
     weekly_reports[i].user_id = u /\ weekly_reports[i].week_start = ws}

\* Mutant of UpdateReport: the overwrite forgets the score.
UpdateReport_TextOnly(rows, i, r) ==
  [rows EXCEPT ![i] = [@ EXCEPT !.report = r.report]]

\* existing.report = report_text; existing.score = weekly_score
UpdateReport(rows, i, r) ==
  [rows EXCEPT ![i] = [@ EXCEPT !.report = r.report, !.score = r.score]]

\* db.add(WeeklyReport(user_id, week_start, week_end, report, score))
InsertReport(rows, u, r) ==
  Append(rows, [user_id |-> u, week_start |-> r.week_start,
                week_end |-> r.week_end, report |-> r.report,
                score |-> r.score])

\* ------------------------------------------------------------------------
\* Dashboard aggregator: get_dashboard.  The two rates are rounded to one
\* decimal; the model holds them in tenths of a percent.
\* ------------------------------------------------------------------------
\* round((a / b * 100) if b else 0, 1), in tenths
RatePercent1(a, b) == IF b # 0 THEN PyRound(a * 1000, b) ELSE 0

\* week_start = today - timedelta(days=today.weekday())
dashboard_week_start(td) == td - Weekday(td)

\* The HabitLog rows joined with Habit that the dashboard counts: the habit
\* is u's and not deleted, the log is completed and dated ws or later.
DashboardLogRows(u, ws) ==
  {r \in BagToSet(habit_logs) :
     /\ r.habit_id \in ActiveHabits(u)
     /\ r.completed
     /\ r.date >= ws}

\* total_habits * 7 if total_habits else 0
total_possible(total_habits) ==
  IF total_habits # 0 THEN total_habits * DaysPerWeek ELSE 0

\* round((task_rate * 0.6) + (habit_rate * 0.4)), the rates in tenths
productivity_score(task_rate, habit_rate) ==
  PyRound((TaskWeight * task_rate) + (HabitWeight * habit_rate), 100)

\* current_streaks: one entry per habit, in the order of all_habits.
RECURSIVE StreakEntries(_, _)
StreakEntries(hs, td) ==
  IF hs = <<>> THEN <<>>
  ELSE <<[name |-> habits[Head(hs)].name,
          streak |-> HabitStreak(Head(hs), td)[1],
          logged_today |-> HabitStreak(Head(hs), td)[2]]>>
       \o StreakEntries(Tail(hs), td)

get_dashboard(u, td) ==
  LET ws == dashboard_week_start(td)
      total_tasks == Cardinality(ActiveTasks(u))
      completed_tasks == CompletedTasks(u)
      task_rate == RatePercent1(completed_tasks, total_tasks)
      total_habits == Cardinality(ActiveHabits(u))
      current_streaks == StreakEntries(IdSeq(ActiveHabits(u)), td)
      logs_this_week == SumCopies(habit_logs, DashboardLogRows(u, ws))
      habit_rate == RatePercent1(logs_this_week, total_possible(total_habits))
  IN  [total_tasks |-> total_tasks,
       completed_tasks |-> completed_tasks,
       pending_tasks |-> total_tasks - completed_tasks,
       task_completion_rate |-> task_rate,
       total_habits |-> total_habits,
       habits_logged_today |->
         Cardinality({i \in DOMAIN current_streaks :
                        current_streaks[i].logged_today}),
       habit_consistency_rate |-> habit_rate,
       productivity_score |-> productivity_score(task_rate, habit_rate),
       current_streaks |-> current_streaks]

\* ------------------------------------------------------------------------
\* Paginated listings and the latest report
\* ------------------------------------------------------------------------
\* ... .order_by(created_at.desc()): created_at grows with the id, so the
\* ids come newest first.
RECURSIVE IdSeqDesc(_)
IdSeqDesc(S) ==
  IF S = {} THEN <<>>
  ELSE LET m == CHOOSE x \in S : \A y \in S : x >= y
       IN  <<m>> \o IdSeqDesc(S \ {m})

\* ... .offset((page - 1) * limit).limit(limit).all().  With page < 1 the
\* offset is negative; SQLite, the database of config.py, then starts at
\* the first row.
PageOf(seq, page, limit) ==
  LET offset == (page - 1) * limit
      skip == IF offset < 0 THEN 0 ELSE offset
      upto == IF skip + limit < Len(seq) THEN skip + limit ELSE Len(seq)
  IN  SubSeq(seq, skip + 1, upto)

\* max(1, -(-total // limit))
total_pages(total, limit) ==
  LET c == (total + limit - 1) \div limit
  IN  IF c > 1 THEN c ELSE 1

\* get_tasks(db, user_id, page, limit): items holds the ids of the tasks.
get_tasks(u, page, limit) ==
  LET total == Cardinality(ActiveTasks(u))
  IN  [items |-> PageOf(IdSeqDesc(ActiveTasks(u)), page, limit),
       total |-> total,
       page |-> page,
       limit |-> limit,
       total_pages |-> total_pages(total, limit),
       has_next |-> page * limit < total,
       has_prev |-> page > 1]

\* The entries of result in get_habits, one per habit of the page.
RECURSIVE HabitItems(_, _)
HabitItems(hs, td) ==
  IF hs = <<>> THEN <<>>
  ELSE <<[id |-> Head(hs),
          name |-> habits[Head(hs)].name,
          user_id |-> habits[Head(hs)].user_id,
          current_streak |-> HabitStreak(Head(hs), td)[1],
          is_logged_today |-> HabitStreak(Head(hs), td)[2]]>>
       \o HabitItems(Tail(hs), td)

\* get_habits(db, user_id, page, limit)
get_habits(u, page, limit, td) ==
  LET total == Cardinality(ActiveHabits(u))
  IN  [items |-> HabitItems(PageOf(IdSeqDesc(ActiveHabits(u)), page, limit), td),
       total |-> total,
       page |-> page,
       limit |-> limit,
       total_pages |-> total_pages(total, limit),
       has_next |-> page * limit < total,
       has_prev |-> page > 1]

\* The ids of the WeeklyReport rows of user u.
ReportsOf(u) == {i \in DOMAIN weekly_reports : weekly_reports[i].user_id = u}

\* Mutant of get_latest_report: the row created first.
get_latest_report_Oldest(u) ==
  IF ReportsOf(u) = {} THEN 0
  ELSE CHOOSE i \in ReportsOf(u) : \A j \in ReportsOf(u) : i <= j

\* get_latest_report(db, user_id): the id of the row of u created last, 0
\* for None.  created_at is set when the row is inserted and never again,
\* and rows inserted later have a later created_at and a greater id.
get_latest_report(u) ==
  IF ReportsOf(u) = {} THEN 0
  ELSE CHOOSE i \in ReportsOf(u) : \A j \in ReportsOf(u) : i >= j

\* ------------------------------------------------------------------------
\* Refresh tokens (services.py) and the auth routes (main.py).  A token is
\* the number of its row: secrets.token_urlsafe(64) gives a fresh value on
\* every call.  Times are in days.
\* ------------------------------------------------------------------------
REFRESH_TOKEN_EXPIRE_DAYS == 7

\* create_refresh_token(db, user_id): the table with the new row.  accepted
\* is not a column: it counts how often the refresh route accepted the
\* token.
create_refresh_token(rows, u, now) ==
  Append(rows, [token |-> Len(rows) + 1, user_id |-> u,
                expires_at |-> now + REFRESH_TOKEN_EXPIRE_DAYS,
                revoked |-> FALSE, accepted |-> 0])

\* get_refresh_token(db, token): the ids of the rows the query matches.
get_refresh_token(rows, token) ==
  {i \in DOMAIN rows : rows[i].token = token /\ ~rows[i].revoked}

\* Mutant of revoke_refresh_token: nothing is revoked.
revoke_refresh_token_Noop(rows, token) == rows

\* revoke_refresh_token(db, token): the table after the call.
revoke_refresh_token(rows, token) ==
  [i \in DOMAIN rows |->
     IF rows[i].token = token THEN [rows[i] EXCEPT !.revoked = TRUE]
     ELSE rows[i]]

\* ------------------------------------------------------------------------
\* Actions: one per service function
\* ------------------------------------------------------------------------
TaskTitles == {"write"}

\* Task(title=title, ..., user_id=user_id): status defaults to "pending",
\* is_deleted to False.
create_task(title, u) ==
  /\ tasks' = Append(tasks, [user_id |-> u, title |-> title,
                             status |-> "pending", is_deleted |-> FALSE])
  /\ last' = NoCall
  /\ UNCHANGED <<today, habits, habit_logs, weekly_reports>>

\* Mutant of ToggledStatus: the task is completed whatever it was.
ToggledStatus_Completed(status) == "completed"

\* "completed" if task.status != "completed" else "pending"
ToggledStatus(status) ==
  IF status # "completed" THEN "completed" ELSE "pending"

toggle_task(id, u) ==
  /\ IF FindTask(id, u)
       THEN /\ tasks' = [tasks EXCEPT ![id].status = ToggledStatus(@)]
            /\ last' = NoCall
       ELSE UNCHANGED <<tasks, last>>
  /\ UNCHANGED <<today, habits, habit_logs, weekly_reports>>

\* edit_task: task.title = new_title
edit_task(id, u, new_title) ==
  /\ IF FindTask(id, u)
       THEN /\ tasks' = [tasks EXCEPT ![id].title = new_title]
            /\ last' = NoCall
       ELSE UNCHANGED <<tasks, last>>
  /\ UNCHANGED <<today, habits, habit_logs, weekly_reports>>

delete_task(id, u) ==
  /\ IF FindTask(id, u)
       THEN /\ tasks' = [tasks EXCEPT ![id].is_deleted = TRUE]
            /\ last' = NoCall
       ELSE UNCHANGED <<tasks, last>>
  /\ UNCHANGED <<today, habits, habit_logs, weekly_reports>>

HabitNames == {"read"}

create_habit(name, u) ==
  /\ habits' = Append(habits, [user_id |-> u, name |-> name,
                               is_deleted |-> FALSE])
  /\ last' = NoCall
  /\ UNCHANGED <<today, tasks, habit_logs, weekly_reports>>

\* edit_habit: habit.name = new_name
edit_habit(id, u, new_name) ==
  /\ IF FindHabit(id, u)
       THEN /\ habits' = [habits EXCEPT ![id].name = new_name]
            /\ last' = NoCall
       ELSE UNCHANGED <<habits, last>>
  /\ UNCHANGED <<today, tasks, habit_logs, weekly_reports>>

delete_habit(id, u) ==
  /\ IF FindHabit(id, u)
       THEN /\ habits' = [habits EXCEPT ![id].is_deleted = TRUE]
            /\ last' = NoCall
       ELSE UNCHANGED <<habits, last>>
  /\ UNCHANGED <<today, tasks, habit_logs, weekly_reports>>

\* db.query(HabitLog).filter(habit_id == h, date == d): the distinct rows.
ExistingLogs(h, d) ==
  {r \in BagToSet(habit_logs) : r.habit_id = h /\ r.date = d}

LogRow(h, d, c) == [habit_id |-> h, date |-> d, completed |-> c]

\* Mutant of SetCompleted: the new value goes into a row of its own.
SetCompleted_AddRow(logs, row, c) ==
  logs (+) SetToBag({[row EXCEPT !.completed = c]})

\* existing.completed = completed, on one row
SetCompleted(logs, row, c) ==
  (logs (-) SetToBag({row})) (+) SetToBag({[row EXCEPT !.completed = c]})

\* log_habit: upsert keyed on (habit_id, date).
log_habit(h, d, c, u) ==
  /\ IF ~FindHabit(h, u)
       THEN UNCHANGED <<habit_logs, last>>
       ELSE IF ExistingLogs(h, d) # {}
              THEN /\ \E row \in ExistingLogs(h, d) :
                        habit_logs' = SetCompleted(habit_logs, row, c)
                   /\ last' = NoCall
              ELSE /\ habit_logs' = habit_logs (+) SetToBag({LogRow(h, d, c)})
                   /\ last' = NoCall
  /\ UNCHANGED <<today, tasks, habits, weekly_reports>>

\* What query.first() may return for the set S of matching row ids: any one
\* of them (the query has no ORDER BY), or None, written 0.
First(S) == IF S = {} THEN {0} ELSE S

\* if existing: overwrite report and score ... else: db.add(new_report)
SaveReport(rows, u, r, existing) ==
  IF existing # 0 THEN UpdateReport(rows, existing, r)
  ELSE InsertReport(rows, u, r)

\* generate_weekly_report(db, user): compute, then update the existing row of
\* (user, week_start) or insert a new one, then commit.
generate_weekly_report(u) ==
  LET r == ComputeReport(u, today)
  IN  /\ \E existing \in First(ExistingReports(u, r.week_start)) :
           /\ weekly_reports' = SaveReport(weekly_reports, u, r, existing)
           /\ last' = [user |-> u, existed |-> existing # 0, today |-> today,
                       report |-> r.report, score |-> r.score]
      /\ UNCHANGED <<today, tasks, habits, habit_logs>>

\* login(form_data) of a registered user: with the wrong password the route
\* answers 401 and stores nothing, otherwise it stores a refresh token and
\* returns it.
login(u, password_ok) ==
  /\ IF password_ok
       THEN /\ refresh_tokens' = create_refresh_token(refresh_tokens, u, today)
            /\ out' = [call |-> "login", user |-> u, id |-> 0, status |-> 200,
                       refresh_token |-> Len(refresh_tokens) + 1]
       ELSE /\ UNCHANGED refresh_tokens
            /\ out' = [call |-> "login", user |-> u, id |-> 0, status |-> 401]
  /\ UNCHANGED <<today, tasks, habits, habit_logs, weekly_reports, last,
                 jobvars>>

\* The calendar moves on to the next day.
AdvanceDay ==
  /\ today' = today + 1
  /\ UNCHANGED <<tasks, habits, habit_logs, weekly_reports, last>>

\* ------------------------------------------------------------------------
\* generate_weekly_report as two steps of one database session, and the
\* loop of run_weekly_reports
\* ------------------------------------------------------------------------
NoLocal == [user |-> 0]
NoBatch == [i |-> 0, attempted |-> {}, failed |-> {}, processed |-> 0,
            session_ok |-> TRUE]

\* Lines 391-477 of generate_weekly_report in the session of p: the reads,
\* the report, and the lookup of the existing row.
gen_read(p, u) ==
  LET r == ComputeReport(u, today)
  IN  \E existing \in First(ExistingReports(u, r.week_start)) :
        local' = [local EXCEPT ![p] = [user |-> u, r |-> r,
                                       existing |-> existing]]

\* Lines 479-494 of generate_weekly_report in the session of p: the update of
\* the row found, or the insert, and the commit.
gen_write(p) ==
  weekly_reports' =
    SaveReport(weekly_reports, local[p].user, local[p].r, local[p].existing)

\* generate_report_now for current_user u: the reads.
ManualRead(u) ==
  /\ pc.manual = "idle"
  /\ gen_read("manual", u)
  /\ pc' = [pc EXCEPT !.manual = "write"]
  /\ UNCHANGED <<today, tasks, habits, habit_logs, weekly_reports, last, steps,
                 out, batch, authvars>>

\* generate_report_now: the write and the commit; the request is answered.
ManualWrite ==
  /\ pc.manual = "write"
  /\ gen_write("manual")
  /\ pc' = [pc EXCEPT !.manual = "idle"]
  /\ local' = [local EXCEPT !.manual = NoLocal]
  /\ UNCHANGED <<today, tasks, habits, habit_logs, last, steps, out,
                 batch, authvars>>

\* run_weekly_reports: db = SessionLocal(); users = get_all_users(db)
BatchStart ==
  /\ pc.batch = "idle"
  /\ batch' = [NoBatch EXCEPT !.i = 1]
  /\ pc' = [pc EXCEPT !.batch = "read"]
  /\ UNCHANGED <<today, tasks, habits, habit_logs, weekly_reports, last, steps,
                 out, local, authvars>>

\* The user the loop is at.
BatchUser == get_all_users[batch.i]

\* for user in users: try: generate_weekly_report(db, user), the reads.
BatchRead ==
  /\ pc.batch = "read"
  /\ batch.i <= Len(get_all_users)
  /\ batch.session_ok
  /\ gen_read("batch", BatchUser)
  /\ batch' = [batch EXCEPT !.attempted = @ \cup {BatchUser}]
  /\ pc' = [pc EXCEPT !.batch = "write"]
  /\ UNCHANGED <<today, tasks, habits, habit_logs, weekly_reports, last, steps,
                 out, authvars>>

\* generate_weekly_report(db, user) of the loop: the write and the commit;
\* the loop goes on to the next user.
BatchWrite ==
  /\ pc.batch = "write"
  /\ gen_write("batch")
  /\ batch' = [batch EXCEPT !.i = @ + 1]
  /\ pc' = [pc EXCEPT !.batch = "read"]
  /\ local' = [local EXCEPT !.batch = NoLocal]
  /\ UNCHANGED <<today, tasks, habits, habit_logs, last, steps, out,
                 authvars>>

\* Mutant of AfterRaise: the exception leaves the loop.
AfterRaise_Abort(i) == Len(get_all_users) + 1

\* except Exception as e: logger.error(...), and the loop goes on.
AfterRaise(i) == i + 1

\* generate_weekly_report raises for the user the loop is at: during the
\* reads or at the commit, whose changes are then not stored.  The except
\* clause does not roll the session back, so the session may stay unusable;
\* every later call on it then raises as well.
BatchRaise ==
  /\ pc.batch \in {"read", "write"}
  /\ batch.i <= Len(get_all_users)
  /\ \E ok \in (IF batch.session_ok THEN BOOLEAN ELSE {FALSE}) :
       batch' = [batch EXCEPT !.i = AfterRaise(@),
                              !.attempted = @ \cup {BatchUser},
                              !.failed = @ \cup {BatchUser},
                              !.session_ok = ok]
  /\ pc' = [pc EXCEPT !.batch = "read"]
  /\ local' = [local EXCEPT !.batch = NoLocal]
  /\ UNCHANGED <<today, tasks, habits, habit_logs, weekly_reports, last, steps,
                 out, authvars>>

\* logger.info(f"... processed {len(users)} users."); db.close()
BatchDone ==
  /\ pc.batch = "read"
  /\ batch.i > Len(get_all_users)
  /\ batch' = [batch EXCEPT !.processed = Len(get_all_users)]
  /\ pc' = [pc EXCEPT !.batch = "done"]
  /\ UNCHANGED <<today, tasks, habits, habit_logs, weekly_reports, last, steps,
                 out, local, authvars>>

\* ------------------------------------------------------------------------
\* Spec: the services called one after another
\* ------------------------------------------------------------------------
\* The dates a client sends to log_habit, around the report window of td.
LogDates(td) ==
  {week_start(td) - 1, week_start(td), week_end(td), td, td + 1}

\* The ids a client sends: every id handed out so far and one that is not.
TaskIds == 1..(Len(tasks) + 1)
HabitIds == 1..(Len(habits) + 1)

Init ==
  /\ today = StartDay
  /\ tasks = <<>>
  /\ habits = <<>>
  /\ habit_logs = EmptyBag
  /\ weekly_reports = <<>>
  /\ last = NoCall
  /\ steps = 0
  /\ out = <<>>
  /\ pc = [manual |-> "idle", batch |-> "idle"]
  /\ local = [manual |-> NoLocal, batch |-> NoLocal]
  /\ batch = NoBatch
  /\ refresh_tokens = <<>>

\* One more step of a run of at most MaxSteps steps.
Tick ==
  /\ steps < MaxSteps
  /\ steps' = steps + 1
  /\ UNCHANGED <<out, jobvars, authvars>>

Next ==
  \/ \E u \in Clients, t \in TaskTitles : Tick /\ create_task(t, u)
  \/ \E u \in Clients, id \in TaskIds : Tick /\ toggle_task(id, u)
  \/ \E u \in Clients, id \in TaskIds : Tick /\ delete_task(id, u)
  \/ \E u \in Clients, n \in HabitNames : Tick /\ create_habit(n, u)
  \/ \E u \in Clients, id \in HabitIds : Tick /\ delete_habit(id, u)
  \/ \E u \in Clients, h \in HabitIds, d \in LogDates(today), c \in BOOLEAN :
       Tick /\ log_habit(h, d, c, u)
  \/ \E u \in Clients : Tick /\ generate_weekly_report(u)
  \/ Tick /\ AdvanceDay

Spec == Init /\ [][Next]_vars

\* ------------------------------------------------------------------------
\* Claims checked under Spec
\* ------------------------------------------------------------------------
\* The ids of the rows of (u, ws) in a WeeklyReport table.
RowsFor(rows, u, ws) ==
  {i \in DOMAIN rows : rows[i].user_id = u /\ rows[i].week_start = ws}

KeyUnique(rows) ==
  \A i, j \in DOMAIN rows :
    (rows[i].user_id = rows[j].user_id /\ rows[i].week_start = rows[j].week_start)
      => i = j

\* C1: with the services called one after another, the WeeklyReport table
\* never holds two rows with the same (user_id, week_start), and a
\* generate_weekly_report call for a (user, week_start) that already has a
\* row inserts nothing.
C1_OneRowPerUserWeek ==
  [][/\ KeyUnique(weekly_reports')
     /\ \A u \in Users :
          (generate_weekly_report(u) /\ RowsFor(weekly_reports, u, today - 7) # {})
            => Len(weekly_reports') = Len(weekly_reports)]_vars

\* C1 witness: two generate calls in a row for the same user and day, the
\* second one finding the row of the first, and one row in the table.
C1_Witness ==
  /\ steps = 2
  /\ last.user # 0
  /\ last.existed
  /\ Len(weekly_reports) = 1

\* C3: a generate_weekly_report call for a (user, week_start) that already
\* has a row leaves exactly one row for it, holding the report and score
\* this call computed and returned; when the previous call was the same call
\* and nothing changed in between, it returns what the previous call
\* returned and leaves the table as it was.
C3_RegenerateOverwrites ==
  [][\A u \in Users :
       (generate_weekly_report(u) /\ RowsFor(weekly_reports, u, today - 7) # {})
         => /\ Cardinality(RowsFor(weekly_reports', u, today - 7)) = 1
            /\ \A i \in RowsFor(weekly_reports', u, today - 7) :
                 /\ weekly_reports'[i].report = ComputeReport(u, today).report
                 /\ weekly_reports'[i].score = ComputeReport(u, today).score
                 /\ weekly_reports'[i].report = last'.report
                 /\ weekly_reports'[i].score = last'.score
            /\ (last.user = u /\ last.today = today)
                 => /\ last'.report = last.report
                    /\ last'.score = last.score
                    /\ weekly_reports' = weekly_reports]_vars

\* C3 witness: a task was created, a report generated, the task completed
\* and the report generated again, overwriting the first one.
C3_Witness ==
  /\ steps = 4
  /\ last.user # 0
  /\ last.existed
  /\ Len(weekly_reports) = 1
  /\ Len(tasks) = 1
  /\ tasks[1].status = "completed"
  /\ weekly_reports[1].report.completed = 1
  /\ weekly_reports[1].score = 60

\* C9: every stored report covers a Monday-to-Sunday week: week_start is a
\* Monday and week_end the Sunday six days later.
C9_MondayToSunday ==
  \A i \in DOMAIN weekly_reports :
    /\ Weekday(weekly_reports[i].week_start) = 0
    /\ Weekday(weekly_reports[i].week_end) = 6
    /\ weekly_reports[i].week_end = weekly_reports[i].week_start + 6

\* C10: every stored row has week_end = week_start + 6 days; a row is
\* inserted with week_end = today - 1 day (today = 2024-06-12, day 16, gives
\* week_end = day 15 and week_start = day 9); a row that is overwritten
\* keeps its week_start and week_end.
C10_WindowShape ==
  [][\A i \in DOMAIN weekly_reports' :
       /\ weekly_reports'[i].week_end = weekly_reports'[i].week_start + 6
       /\ i \notin DOMAIN weekly_reports
            => /\ weekly_reports'[i].week_end = today - 1
               /\ today = 16 => /\ weekly_reports'[i].week_end = 15
                                /\ weekly_reports'[i].week_start = 9
       /\ i \in DOMAIN weekly_reports
            => /\ weekly_reports'[i].week_start = weekly_reports[i].week_start
               /\ weekly_reports'[i].week_end = weekly_reports[i].week_end]_vars

\* C10 witness: on 2024-06-12 a report was generated and then overwritten;
\* its row is 2024-06-05 .. 2024-06-11.
C10_Witness ==
  /\ today = 16
  /\ last.user # 0
  /\ last.existed
  /\ \E i \in DOMAIN weekly_reports :
       /\ weekly_reports[i].week_start = 9
       /\ weekly_reports[i].week_end = 15

\* ------------------------------------------------------------------------
\* SpecStreak: _calculate_streak on every today and every set of completed
\* log dates of one habit within 0..StreakDays
\* ------------------------------------------------------------------------
StreakDates == 0..StreakDays

InitStreak ==
  /\ today \in StreakDates
  /\ tasks = <<>>
  /\ habits = <<[user_id |-> 1, name |-> "read", is_deleted |-> FALSE]>>
  /\ \E S \in SUBSET StreakDates :
       habit_logs = SetToBag({LogRow(1, d, TRUE) : d \in S})
  /\ weekly_reports = <<>>
  /\ last = NoCall
  /\ steps = 0
  /\ out = <<>>
  /\ pc = [manual |-> "idle", batch |-> "idle"]
  /\ local = [manual |-> NoLocal, batch |-> NoLocal]
  /\ batch = NoBatch
  /\ refresh_tokens = <<>>

\* streak, is_logged_today = _calculate_streak(logs, today), logs being the
\* completed logs of the habit, newest first.
ApplyStreak ==
  /\ out = <<>>
  /\ out' = HabitStreak(1, today)
  /\ UNCHANGED <<today, tasks, habits, habit_logs, weekly_reports, last, steps,
                 jobvars, authvars>>

NextStreak == ApplyStreak

SpecStreak == InitStreak /\ [][NextStreak]_vars

\* The dates of the completed logs of habit 1.
LoggedDays == {r.date : r \in CompletedRows(1)}

\* The number of consecutive days today, today-1, ... that all have a log.
RunFromToday ==
  CHOOSE k \in 0..(StreakDays + 1) :
    /\ \A i \in 0..(k - 1) : (today - i) \in LoggedDays
    /\ (today - k) \notin LoggedDays

\* C4: _calculate_streak returns (k, b), k the number of consecutive days
\* today, today-1, ... that all have a completed log (nothing before the
\* first missing day counts) and b true exactly when today has one; no logs
\* gives (0, false), logs on today, today-1, today-2 give (3, true), logs on
\* today and today-5 give (1, true).
C4_StreakIsRunFromToday ==
  out # <<>> =>
    /\ out = <<RunFromToday, today \in LoggedDays>>
    /\ LoggedDays = {} => out = <<0, FALSE>>
    /\ LoggedDays = {today, today - 1, today - 2} => out = <<3, TRUE>>
    /\ LoggedDays = {today, today - 5} => out = <<1, TRUE>>

\* C4 witness: logs on today and five days before, and one in the future;
\* the streak came out as (1, true).
C4_Witness ==
  /\ today = 6
  /\ LoggedDays = {7, 6, 1}
  /\ out = <<1, TRUE>>

\* C5 as claimed: logs on today-1 and today-2 and none on today give (2, false).
C5_YesterdayRunCounts ==
  (out # <<>> /\ LoggedDays = {today - 1, today - 2})
    => out = <<2, FALSE>>

\* C5 amended: logs on today-1 and today-2 and none on today give (0, false):
\* the walk expects today first, so a run that ends yesterday counts nothing.
C5_YesterdayRunIsZero ==
  (out # <<>> /\ LoggedDays = {today - 1, today - 2})
    => out = <<0, FALSE>>

\* C5 witness: the streak was computed for logs on today-1 and today-2 only.
C5_Witness ==
  /\ today >= 2
  /\ LoggedDays = {today - 1, today - 2}
  /\ out # <<>>

\* ------------------------------------------------------------------------
\* SpecJobs: on a Monday, the scheduled run_weekly_reports, a manual
\* generate_report_now request and toggle_task requests, each in its own
\* session, their steps interleaved
\* ------------------------------------------------------------------------
\* Monday 2024-06-10.
JobDay == 2 * 7

InitJobs ==
  /\ today = JobDay
  /\ tasks = <<[user_id |-> 1, title |-> "write", status |-> "pending",
                is_deleted |-> FALSE]>>
  /\ habits = <<>>
  /\ habit_logs = EmptyBag
  /\ weekly_reports = <<>>
  /\ last = NoCall
  /\ steps = 0
  /\ out = <<>>
  /\ pc = [manual |-> "idle", batch |-> "idle"]
  /\ local = [manual |-> NoLocal, batch |-> NoLocal]
  /\ batch = NoBatch
  /\ refresh_tokens = <<>>

ToggleRequest(id, u) ==
  /\ toggle_task(id, u)
  /\ UNCHANGED <<steps, out, jobvars, authvars>>

NextJobs ==
  \/ \E u \in Clients : ManualRead(u)
  \/ ManualWrite
  \/ BatchStart
  \/ BatchRead
  \/ BatchWrite
  \/ BatchRaise
  \/ BatchDone
  \/ \E u \in Clients : ToggleRequest(1, u)

SpecJobs == InitJobs /\ [][NextJobs]_vars

\* C2: when generate_report_now and run_weekly_reports generate the report
\* of the same user and week_start with their steps interleaved, there is
\* still one row per (user, week_start).
C2_OneRowUnderInterleaving == KeyUnique(weekly_reports)

WeekDay == (2 * 7) + 6

InitWeek ==
  /\ today = WeekDay
  /\ tasks = <<[user_id |-> 1, title |-> "write", status |-> "pending",
                is_deleted |-> FALSE]>>
  /\ habits = <<>>
  /\ habit_logs = EmptyBag
  /\ weekly_reports = <<>>
  /\ last = NoCall
  /\ steps = 0
  /\ out = <<>>
  /\ pc = [manual |-> "idle", batch |-> "idle"]
  /\ local = [manual |-> NoLocal, batch |-> NoLocal]
  /\ batch = NoBatch
  /\ refresh_tokens = <<>>

\* A call that changes tasks, habits or logs; the result of an earlier read
\* is dropped.
Change ==
  /\ out' = <<>>
  /\ UNCHANGED <<steps, jobvars, authvars>>

\* log_habit may add a row while the table holds fewer than MaxWeekLogs.
RoomForLog(h, d) ==
  ExistingLogs(h, d) # {} \/ BagCardinality(habit_logs) < MaxWeekLogs

\* SpecWeek logs the seven days of the report window and today.
WeekLogs(td) == week_start(td)..td

\* In SpecWeek the report is generated once the tasks, habits and logs are
\* in place; generate_weekly_report reads them and changes none.
Building == weekly_reports = <<>>

NextWeek ==
  \/ Building /\ Change /\ toggle_task(1, 1)
  \/ Building /\ Change /\ Len(habits) < MaxWeekHabits /\ create_habit("read", 1)
  \/ \E h \in DOMAIN habits : Building /\ Change /\ delete_habit(h, 1)
  \/ \E h \in DOMAIN habits, d \in WeekLogs(today) :
       Building /\ Change /\ RoomForLog(h, d) /\ log_habit(h, d, TRUE, 1)
  \/ Change /\ generate_weekly_report(1)

SpecWeek == InitWeek /\ [][NextWeek]_vars

\* C8: every stored WeeklyReport row has an integer score within 0..100,
\* and the completed logs it counted are at most 7 times the habits it
\* counted, which are the user's active habits.
C8_ReportScoreInRange ==
  \A i \in DOMAIN weekly_reports :
    /\ weekly_reports[i].score \in 0..100
    /\ weekly_reports[i].report.possible =
         7 * Cardinality(ActiveHabits(weekly_reports[i].user_id))
    /\ weekly_reports[i].report.logs <= weekly_reports[i].report.possible

\* C8 witness: a report whose habit was logged on all seven days of the
\* window, and on the day after it, with the task completed: score 100.
C8_Witness ==
  /\ Len(weekly_reports) = 1
  /\ weekly_reports[1].report.logs = 7
  /\ weekly_reports[1].report.possible = 7
  /\ weekly_reports[1].score = 100
  /\ BagCardinality(habit_logs) = 8

\* SpecDash logs the day before this week, the seven days of this week and
\* the Monday after it, completed or not.
DashLogs(td) ==
  {<<d, c>> : d \in (dashboard_week_start(td) - 1)..(td + 1), c \in BOOLEAN}

\* get_dashboard(db, user_id)
GetDashboard(u) ==
  /\ out' = get_dashboard(u, today)
  /\ UNCHANGED <<today, tasks, habits, habit_logs, weekly_reports, last, steps,
                 jobvars, authvars>>

NextDash ==
  \/ Change /\ toggle_task(1, 1)
  \/ Change /\ delete_task(1, 1)
  \/ Change /\ Len(habits) < MaxWeekHabits /\ create_habit("read", 1)
  \/ \E h \in DOMAIN habits : Change /\ delete_habit(h, 1)
  \/ \E h \in DOMAIN habits, x \in DashLogs(today) :
       Change /\ RoomForLog(h, x[1]) /\ log_habit(h, x[1], x[2], 1)
  \/ GetDashboard(1)

SpecDash == InitWeek /\ [][NextDash]_vars

\* C7: get_dashboard returns task_completion_rate and
\* habit_consistency_rate within 0 to 100 (0 to 1000 tenths) and an integer
\* productivity_score within 0 to 100.
C7_DashboardInRange ==
  out # <<>> =>
    /\ out.task_completion_rate \in 0..1000
    /\ out.habit_consistency_rate \in 0..1000
    /\ out.productivity_score \in 0..100

\* ------------------------------------------------------------------------
\* SpecApi: the task and habit routes of main.py that write, called one
\* after another by two users, out holding the answer to the last request.
\* SpecFrame: the report, login and reading routes, with the writes that
\* give them something to read.
\* ------------------------------------------------------------------------
\* if not task: raise HTTPException(status_code=404, ...)
Status(found) == IF found THEN 200 ELSE 404

\* A request that is answered with r.
Reply(r) ==
  /\ steps < MaxApiSteps
  /\ steps' = steps + 1
  /\ out' = r
  /\ UNCHANGED <<jobvars, authvars>>

\* A request that only reads and is answered with r.
Read(r) ==
  /\ out' = r
  /\ UNCHANGED <<today, tasks, habits, habit_logs, weekly_reports, last, steps,
                 jobvars, authvars>>

ApiCreateTask(t, u) ==
  /\ create_task(t, u)
  /\ Reply([call |-> "create_task", user |-> u, id |-> Len(tasks) + 1,
            status |-> 200])

ApiToggleTask(id, u) ==
  /\ toggle_task(id, u)
  /\ Reply([call |-> "toggle_task", user |-> u, id |-> id,
            status |-> Status(FindTask(id, u)),
            body |-> IF FindTask(id, u) THEN tasks'[id] ELSE <<>>])

ApiEditTask(id, u, t) ==
  /\ edit_task(id, u, t)
  /\ Reply([call |-> "edit_task", user |-> u, id |-> id,
            status |-> Status(FindTask(id, u))])

ApiDeleteTask(id, u) ==
  /\ delete_task(id, u)
  /\ Reply([call |-> "delete_task", user |-> u, id |-> id,
            status |-> Status(FindTask(id, u))])

ApiCreateHabit(n, u) ==
  /\ create_habit(n, u)
  /\ Reply([call |-> "create_habit", user |-> u, id |-> Len(habits) + 1,
            status |-> 200])

ApiEditHabit(id, u, n) ==
  /\ edit_habit(id, u, n)
  /\ Reply([call |-> "edit_habit", user |-> u, id |-> id,
            status |-> Status(FindHabit(id, u))])

ApiDeleteHabit(id, u) ==
  /\ delete_habit(id, u)
  /\ Reply([call |-> "delete_habit", user |-> u, id |-> id,
            status |-> Status(FindHabit(id, u))])

\* existing tells whether log_habit found a row of (habit, date).
ApiLogHabit(h, d, c, u) ==
  /\ log_habit(h, d, c, u)
  /\ Reply([call |-> "log_habit", user |-> u, id |-> h, date |-> d,
            completed |-> c, status |-> Status(FindHabit(h, u)),
            existing |-> FindHabit(h, u) /\ ExistingLogs(h, d) # {}])

ApiGenerate(u) ==
  /\ generate_weekly_report(u)
  /\ Reply([call |-> "generate_report_now", user |-> u, id |-> 0,
            status |-> 200])

ApiLogin(u) ==
  /\ steps < MaxApiSteps
  /\ steps' = steps + 1
  /\ login(u, TRUE)

ApiAdvanceDay ==
  /\ AdvanceDay
  /\ Reply(<<>>)

\* page and limit of the listings: the defaults, and the second page of
\* pages of one.
Pages == {<<1, 20>>, <<2, 1>>}

ApiGetTasks(u, pg) ==
  Read([call |-> "get_tasks", user |-> u, id |-> 0, status |-> 200,
        body |-> get_tasks(u, pg[1], pg[2])])

ApiGetHabits(u, pg) ==
  Read([call |-> "get_habits", user |-> u, id |-> 0, status |-> 200,
        body |-> get_habits(u, pg[1], pg[2], today)])

ApiGetDashboard(u) ==
  Read([call |-> "get_dashboard", user |-> u, id |-> 0, status |-> 200,
        body |-> get_dashboard(u, today)])

\* get_latest_report route: 404 when the user has no report.
ApiGetLatestReport(u) ==
  Read([call |-> "get_latest_report", user |-> u,
        id |-> get_latest_report(u),
        status |-> Status(get_latest_report(u) # 0)])

\* The titles and names a client sends when it edits, and the dates it logs.
EditTitles == {"edit"}
EditNames == {"run"}
ApiDates(td) == {td - 1, td, td + 1}

NextApi ==
  \/ \E u \in Clients, t \in TaskTitles : ApiCreateTask(t, u)
  \/ \E u \in Clients, id \in TaskIds : ApiToggleTask(id, u)
  \/ \E u \in Clients, id \in TaskIds, t \in EditTitles : ApiEditTask(id, u, t)
  \/ \E u \in Clients, id \in TaskIds : ApiDeleteTask(id, u)
  \/ \E u \in Clients, n \in HabitNames : ApiCreateHabit(n, u)
  \/ \E u \in Clients, id \in HabitIds, n \in EditNames : ApiEditHabit(id, u, n)
  \/ \E u \in Clients, id \in HabitIds : ApiDeleteHabit(id, u)
  \/ \E u \in Clients, h \in HabitIds, d \in ApiDates(today), c \in BOOLEAN :
       ApiLogHabit(h, d, c, u)

SpecApi == Init /\ [][NextApi]_vars

NextFrame ==
  \/ \E u \in Clients, t \in TaskTitles : ApiCreateTask(t, u)
  \/ \E u \in Clients, id \in DOMAIN tasks : ApiToggleTask(id, u)
  \/ \E u \in Clients, n \in HabitNames : ApiCreateHabit(n, u)
  \/ \E u \in Clients, h \in DOMAIN habits : ApiLogHabit(h, today - 1, TRUE, u)
  \/ \E u \in Clients : ApiGenerate(u)
  \/ \E u \in Clients : ApiLogin(u)
  \/ ApiAdvanceDay
  \/ \E u \in Clients, pg \in Pages : ApiGetTasks(u, pg)
  \/ \E u \in Clients, pg \in Pages : ApiGetHabits(u, pg)
  \/ \E u \in Clients : ApiGetDashboard(u)
  \/ \E u \in Clients : ApiGetLatestReport(u)

SpecFrame == Init /\ [][NextFrame]_vars

\* The answer o is the answer to a call of the route named name.
IsCall(o, name) == o # <<>> /\ o.call = name

\* ------------------------------------------------------------------------
\* Claims checked under SpecApi
\* ------------------------------------------------------------------------
\* The (habit_id, date) pairs that have a row in a HabitLog table.
LogKeys(logs) == {<<r.habit_id, r.date>> : r \in BagToSet(logs)}

\* The rows of a HabitLog table that are not of (h, d).
LogsBut(logs, h, d) ==
  {r \in BagToSet(logs) : ~(r.habit_id = h /\ r.date = d)}

LogKeyUnique(logs) ==
  \A r \in BagToSet(logs) :
    /\ CopiesIn(r, logs) = 1
    /\ \A q \in BagToSet(logs) :
         (q.habit_id = r.habit_id /\ q.date = r.date) => q = r

\* C11: with log_habit called one call after another there is at most one
\* HabitLog row per (habit_id, date); a call for a logged (habit, date)
\* sets the completed flag of its row and adds no row, a call for a new
\* (habit, date) adds exactly one row, and no other row changes.
C11_OneLogPerHabitDate ==
  [][/\ LogKeyUnique(habit_logs')
     /\ (IsCall(out', "log_habit") /\ out'.status = 200)
          => /\ CopiesIn([habit_id |-> out'.id, date |-> out'.date,
                          completed |-> out'.completed], habit_logs') = 1
             /\ LogsBut(habit_logs', out'.id, out'.date)
                  = LogsBut(habit_logs, out'.id, out'.date)
             /\ BagCardinality(habit_logs') =
                  IF <<out'.id, out'.date>> \in LogKeys(habit_logs)
                    THEN BagCardinality(habit_logs)
                    ELSE BagCardinality(habit_logs) + 1]_vars

\* C11 witness: a habit was logged as completed and then logged again for
\* the same date as not completed; the table holds the one row, unchecked.
C11_Witness ==
  /\ IsCall(out, "log_habit")
  /\ out.status = 200
  /\ out.existing
  /\ ~out.completed
  /\ BagCardinality(habit_logs) = 1
  /\ steps = 3

\* The tasks and habits of u whose is_deleted flag is false.
LiveTasks(u) ==
  {i \in DOMAIN tasks : tasks[i].user_id = u /\ tasks[i].is_deleted = FALSE}

LiveHabits(u) ==
  {i \in DOMAIN habits : habits[i].user_id = u /\ habits[i].is_deleted = FALSE}

LiveCompleted(u) == {i \in LiveTasks(u) : tasks[i].status = "completed"}

\* The number of completed logs, dated lo..hi, of the live habits of u.
LiveLogCount(u, lo, hi) ==
  SumCopies(habit_logs,
            {r \in BagToSet(habit_logs) :
               /\ r.habit_id \in LiveHabits(u)
               /\ r.completed
               /\ r.date \in lo..hi})

\* The farthest date a log of the model has.
LastDate == today + 1

\* The listings, the dashboard and the report count live rows only.
MetricsSkipDeleted ==
  \A u \in Users :
    LET t == get_tasks(u, 1, 20)
        h == get_habits(u, 1, 20, today)
        d == get_dashboard(u, today)
        r == ComputeReport(u, today).report
        live_tasks == Cardinality(LiveTasks(u))
        live_completed == Cardinality(LiveCompleted(u))
        live_habits == Cardinality(LiveHabits(u))
        week_logs == LiveLogCount(u, today - Weekday(today), LastDate)
        window_logs == LiveLogCount(u, today - 7, today - 1)
    IN  /\ {t.items[i] : i \in DOMAIN t.items} = LiveTasks(u)
        /\ t.total = live_tasks
        /\ {h.items[i].id : i \in DOMAIN h.items} = LiveHabits(u)
        /\ h.total = live_habits
        /\ d.total_tasks = live_tasks
        /\ d.completed_tasks = live_completed
        /\ d.task_completion_rate = RatePercent1(live_completed, live_tasks)
        /\ d.total_habits = live_habits
        /\ Len(d.current_streaks) = live_habits
        /\ d.habit_consistency_rate = RatePercent1(week_logs, 7 * live_habits)
        /\ r.total = live_tasks
        /\ r.completed = live_completed
        /\ r.task_rate = RatePercent(live_completed, live_tasks)
        /\ r.possible = 7 * live_habits
        /\ r.logs = window_logs
        /\ r.habit_rate = RatePercent(window_logs, 7 * live_habits)

\* C12: no step removes a Task, Habit or HabitLog row; delete_task and
\* delete_habit set is_deleted and nothing else; a deleted row never
\* changes again, so its flag stays true; a deleted habit keeps its logs as
\* they are; and the listings, the dashboard and the report count none of
\* the deleted tasks and habits and none of the logs of a deleted habit.
C12_SoftDeleteOnly ==
  /\ []MetricsSkipDeleted
  /\ [][/\ Len(tasks') >= Len(tasks)
        /\ \A i \in DOMAIN tasks : tasks[i].is_deleted => tasks'[i] = tasks[i]
        /\ Len(habits') >= Len(habits)
        /\ \A i \in DOMAIN habits :
             habits[i].is_deleted => habits'[i] = habits[i]
        /\ LogKeys(habit_logs) \subseteq LogKeys(habit_logs')
        /\ BagCardinality(habit_logs') >= BagCardinality(habit_logs)
        /\ \A r \in BagToSet(habit_logs) \cup BagToSet(habit_logs') :
             (r.habit_id \in DOMAIN habits /\ habits[r.habit_id].is_deleted)
               => CopiesIn(r, habit_logs') = CopiesIn(r, habit_logs)
        /\ (IsCall(out', "delete_task") /\ out'.status = 200)
             => tasks' = [tasks EXCEPT ![out'.id].is_deleted = TRUE]
        /\ (IsCall(out', "delete_habit") /\ out'.status = 200)
             => /\ habits' = [habits EXCEPT ![out'.id].is_deleted = TRUE]
                /\ habit_logs' = habit_logs]_vars

\* C12 witness: a habit with a completed log of yesterday was deleted; the
\* log is still stored, and the dashboard and the report count no habit.
C12_Witness ==
  /\ IsCall(out, "delete_habit")
  /\ out.status = 200
  /\ habits[out.id].is_deleted
  /\ LogRow(out.id, today - 1, TRUE) \in BagToSet(habit_logs)
  /\ get_dashboard(out.user, today).total_habits = 0
  /\ ComputeReport(out.user, today).report.logs = 0

\* The task or habit id exists, is owned by u and is not deleted.
LiveTask(id, u) == id \in LiveTasks(u)
LiveHabit(id, u) == id \in LiveHabits(u)

\* C13: toggle_task, edit_task, delete_task, edit_habit, delete_habit and
\* log_habit called with an id that does not exist or is of a deleted task
\* or habit answer 404 and change no task, habit or habit log.
C13_NotFoundChangesNothing ==
  [][/\ \A name \in {"toggle_task", "edit_task", "delete_task"} :
          (IsCall(out', name) /\ ~LiveTask(out'.id, out'.user))
            => /\ out'.status = 404
               /\ UNCHANGED <<tasks, habits, habit_logs>>
     /\ \A name \in {"edit_habit", "delete_habit", "log_habit"} :
          (IsCall(out', name) /\ ~LiveHabit(out'.id, out'.user))
            => /\ out'.status = 404
               /\ UNCHANGED <<tasks, habits, habit_logs>>]_vars

\* C13 witness: a habit with one log was deleted and log_habit was then
\* called for it by its owner: 404, and still the one log.
C13_Witness ==
  /\ IsCall(out, "log_habit")
  /\ out.status = 404
  /\ out.id \in DOMAIN habits
  /\ habits[out.id].user_id = out.user
  /\ habits[out.id].is_deleted
  /\ BagCardinality(habit_logs) = 1

\* The status a task does not have.
OtherStatus(status) == IF status = "pending" THEN "completed" ELSE "pending"

TaskStatusOk ==
  \A i \in DOMAIN tasks : tasks[i].status \in {"pending", "completed"}

\* C18: every task's status is "pending" or "completed"; create_task adds
\* a "pending" task; a successful toggle_task switches the status of its
\* task to the other value and changes no other field and no other task;
\* a second toggle of the same task straight after the first gives the
\* status the task had before the first.
C18_ToggleSwitchesStatus ==
  /\ []TaskStatusOk
  /\ [][/\ IsCall(out', "create_task")
             => /\ Len(tasks') = Len(tasks) + 1
                /\ tasks'[Len(tasks')].status = "pending"
                /\ \A i \in DOMAIN tasks : tasks'[i] = tasks[i]
        /\ (IsCall(out', "toggle_task") /\ out'.status = 200)
             => /\ tasks' = [tasks EXCEPT ![out'.id].status = OtherStatus(@)]
                /\ out'.body = tasks'[out'.id]
                /\ UNCHANGED <<habits, habit_logs, weekly_reports>>
        /\ ( /\ IsCall(out, "toggle_task") /\ out.status = 200
             /\ IsCall(out', "toggle_task") /\ out'.status = 200
             /\ out'.id = out.id )
             => /\ out'.body.status = OtherStatus(out.body.status)
                /\ OtherStatus(out'.body.status) = out.body.status]_vars

\* C18 witness: a pending task was toggled twice in a row and is pending
\* again.
C18_Witness ==
  /\ steps = 3
  /\ IsCall(out, "toggle_task")
  /\ out.status = 200
  /\ out.body.status = "pending"
  /\ tasks[out.id].status = "pending"
  /\ Len(tasks) = 1

\* ------------------------------------------------------------------------
\* Claims about SpecFrame
\* ------------------------------------------------------------------------
ReadCalls == {"get_dashboard", "get_tasks", "get_habits", "get_latest_report"}

\* The key of a WeeklyReport row.
ReportKey(row) == <<row.user_id, row.week_start>>

\* C16: get_dashboard, get_tasks, get_habits and get_latest_report change
\* no stored row.  generate_weekly_report for user u leaves tasks, habits,
\* habit logs and refresh tokens unchanged, leaves every report of another
\* user or of another week of u unchanged, never changes the key or the
\* week_end of a row, and adds at most one row, which has the key
\* (u, week_start) and is added only when no row had that key.
C16_ReportFrame ==
  [][/\ (\E name \in ReadCalls : IsCall(out', name))
          => UNCHANGED <<tasks, habits, habit_logs, weekly_reports,
                         refresh_tokens>>
     /\ IsCall(out', "generate_report_now")
          => LET key == <<out'.user, week_start(today)>>
             IN  /\ UNCHANGED <<tasks, habits, habit_logs, refresh_tokens>>
                 /\ \A i \in DOMAIN weekly_reports :
                      /\ ReportKey(weekly_reports'[i]) = ReportKey(weekly_reports[i])
                      /\ weekly_reports'[i].week_end = weekly_reports[i].week_end
                      /\ ReportKey(weekly_reports[i]) # key
                           => weekly_reports'[i] = weekly_reports[i]
                 /\ \/ Len(weekly_reports') = Len(weekly_reports)
                    \/ /\ Len(weekly_reports') = Len(weekly_reports) + 1
                       /\ ReportKey(weekly_reports'[Len(weekly_reports')]) = key
                       /\ \A i \in DOMAIN weekly_reports :
                            ReportKey(weekly_reports[i]) # key]_vars

\* C16 witness: a report was generated for a user who had tasks, habits
\* and logs stored, next to a report of another user with different
\* contents.
C16_Witness ==
  /\ IsCall(out, "generate_report_now")
  /\ Len(weekly_reports) = 2
  /\ weekly_reports[1].user_id # out.user
  /\ weekly_reports[2].user_id = out.user
  /\ weekly_reports[1].report.total # weekly_reports[2].report.total

\* ------------------------------------------------------------------------
\* SpecBest: the best-streak loop of generate_weekly_report, applied to
\* every table of up to MaxBestHabits habits whose completed logs are a run
\* of up to MaxBestRun days ending today.
\* ------------------------------------------------------------------------
MaxBestHabits == 2
MaxBestRun == 2

\* HabitCreate.name is any str: the empty string is accepted.
BestNames == {"", "read", "run"}

BestHabitRows ==
  [user_id : Clients, name : BestNames, is_deleted : BOOLEAN]

InitBest ==
  /\ today = StartDay
  /\ tasks = <<>>
  /\ \E n \in 0..MaxBestHabits :
       \E hs \in [1..n -> BestHabitRows], runs \in [1..n -> 0..MaxBestRun] :
         /\ habits = hs
         /\ habit_logs =
              SetToBag({LogRow(q[1], today - q[2], TRUE) :
                          q \in {x \in (1..n) \X (0..(MaxBestRun - 1)) :
                                   x[2] < runs[x[1]]}})
  /\ weekly_reports = <<>>
  /\ last = NoCall
  /\ steps = 0
  /\ out = <<>>
  /\ pc = [manual |-> "idle", batch |-> "idle"]
  /\ local = [manual |-> NoLocal, batch |-> NoLocal]
  /\ batch = NoBatch
  /\ refresh_tokens = <<>>

\* generate_weekly_report(db, user) for user 1, once.
BestGenerate ==
  /\ steps = 0
  /\ steps' = 1
  /\ generate_weekly_report(1)
  /\ UNCHANGED <<out, jobvars, authvars>>

NextBest == BestGenerate

SpecBest == InitBest /\ [][NextBest]_vars

\* The greatest streak at today over the active habits of u, 0 without any.
MaxStreak(u) ==
  LET S == {HabitStreak(h, today)[1] : h \in ActiveHabits(u)} \cup {0}
  IN  CHOOSE m \in S : \A x \in S : x <= m

\* The first habit of u, in the order of all_habits, whose streak is the
\* greatest one.
FirstWithMax(u) ==
  CHOOSE h \in ActiveHabits(u) :
    /\ HabitStreak(h, today)[1] = MaxStreak(u)
    /\ \A g \in ActiveHabits(u) :
         HabitStreak(g, today)[1] = MaxStreak(u) => h <= g

\* The report text carries the "Start a habit this week" sentence.
StartSentence(text) == text.best_habit = NoHabit

\* C14: the report of user 1 names the first active habit whose streak is
\* the greatest one, with that streak, whenever some streak is positive,
\* and carries the "start a habit" sentence when every streak is 0 or the
\* user has no active habit.
C14_BestHabitNamed ==
  (steps = 1 /\ last # NoCall) =>
    IF MaxStreak(1) > 0
      THEN /\ ~StartSentence(last.report)
           /\ last.report.best_habit = habits[FirstWithMax(1)].name
           /\ last.report.best_streak = MaxStreak(1)
      ELSE StartSentence(last.report)

\* The habits of the report's user all have a name that is not empty.
NamesNotEmpty(u) == \A h \in ActiveHabits(u) : habits[h].name # ""

\* C14 with habit names that are not empty: then the statement holds.
C14_BestHabitNamedIfNames ==
  NamesNotEmpty(1) => C14_BestHabitNamed

\* Two active habits tie on the greatest streak and the first is named.
C14_Witness ==
  /\ steps = 1
  /\ Cardinality(ActiveHabits(1)) = 2
  /\ NamesNotEmpty(1)
  /\ habits[1].name # habits[2].name
  /\ HabitStreak(1, today)[1] = MaxBestRun
  /\ HabitStreak(2, today)[1] = MaxBestRun
  /\ last.report.best_habit = habits[1].name
  /\ ~StartSentence(last.report)

\* ------------------------------------------------------------------------
\* SpecRates: the rates of generate_weekly_report and get_dashboard on every
\* table of user 1 with up to MaxRateTasks tasks, any number of them
\* completed, and up to MaxRateHabits habits, each logged on the first days
\* of the report window.  The tables also hold rows that must not count: a
\* deleted completed task, a completed task of user 2, and for each habit a
\* log the day before the window and a log today.
\* ------------------------------------------------------------------------
MaxRateTasks == 10
MaxRateHabits == 2

\* n tasks of user 1, the first c of them completed.
RateTasks(n, c) ==
  [i \in 1..n |->
     [user_id |-> 1, title |-> "write",
      status |-> IF i <= c THEN "completed" ELSE "pending",
      is_deleted |-> FALSE]]

\* The completed logs of habit h: the first k days of the window, the day
\* before the window and today.
RateLogs(h, k, td) ==
  {LogRow(h, d, TRUE) :
     d \in (week_start(td)..(week_start(td) + k - 1))
             \cup {week_start(td) - 1, td}}

InitRates ==
  /\ today = StartDay
  /\ \E n \in 0..MaxRateTasks :
       \E c \in 0..n :
         tasks = RateTasks(n, c)
                   \o <<[user_id |-> 1, title |-> "write",
                         status |-> "completed", is_deleted |-> TRUE],
                        [user_id |-> 2, title |-> "write",
                         status |-> "completed", is_deleted |-> FALSE]>>
  /\ \E n \in 0..MaxRateHabits :
       \E ks \in [1..n -> 0..DaysPerWeek] :
         /\ habits = [h \in 1..n |->
                        [user_id |-> 1, name |-> "read", is_deleted |-> FALSE]]
         /\ habit_logs =
              SetToBag(UNION {RateLogs(h, ks[h], today) : h \in 1..n})
  /\ weekly_reports = <<>>
  /\ last = NoCall
  /\ steps = 0
  /\ out = <<>>
  /\ pc = [manual |-> "idle", batch |-> "idle"]
  /\ local = [manual |-> NoLocal, batch |-> NoLocal]
  /\ batch = NoBatch
  /\ refresh_tokens = <<>>

\* generate_weekly_report(db, user) for user 1, once.
RateReport ==
  /\ steps = 0
  /\ steps' = 1
  /\ generate_weekly_report(1)
  /\ UNCHANGED <<out, jobvars, authvars>>

\* get_dashboard(db, 1)
RateDashboard == ApiGetDashboard(1)

NextRates ==
  \/ RateReport
  \/ RateDashboard

SpecRates == InitRates /\ [][NextRates]_vars

\* r is an integer nearest to num / den.
Nearest(r, num, den) ==
  LET diff == num - (r * den)
  IN  IF diff >= 0 THEN 2 * diff <= den ELSE 2 * (0 - diff) <= den

LaterRows(h, td) == {r \in CompletedRows(h) : r.date > td}
NotLaterRows(h, td) == {r \in CompletedRows(h) : r.date <= td}

\* C17 as stated: for the completed logs of every habit, read newest
\* first, each iteration of the walk of _calculate_streak takes one of the
\* three branches: no log is passed over.
C17_NoLogPassedOver ==
  \A h \in DOMAIN habits :
    streak_walk(CompletedLogDates(h), today)[3] = 0

\* C17 amended: the walk passes over exactly the completed logs dated
\* later than today, which log_habit stores like any other, and its result
\* is the result of the walk over the other logs; every log dated today or
\* earlier that the walk meets takes one of the three branches.
C17_LaterLogsPassedOver ==
  \A h \in DOMAIN habits :
    LET w == streak_walk(CompletedLogDates(h), today)
    IN  /\ w[3] = SumCopies(habit_logs, LaterRows(h, today))
        /\ <<w[1], w[2]>> =
             calculate_streak(DatesDesc(NotLaterRows(h, today)), today)

\* C17 witness: a habit completed today and tomorrow: tomorrow's log is
\* passed over and the streak is 1.
C17_Witness ==
  /\ IsCall(out, "log_habit")
  /\ out.status = 200
  /\ Len(habits) = 1
  /\ LogRow(1, today + 1, TRUE) \in BagToSet(habit_logs)
  /\ LogRow(1, today, TRUE) \in BagToSet(habit_logs)
  /\ streak_walk(CompletedLogDates(1), today) = <<1, TRUE, 1>>

\* ------------------------------------------------------------------------
\* SpecAuth: login, refresh and logout requests one after another, with the
\* clock moving between them.
\* ------------------------------------------------------------------------
MaxAuthSteps == 5

\* The route answers and the request is counted.
AuthReply(r) ==
  /\ steps < MaxAuthSteps
  /\ steps' = steps + 1
  /\ out' = r
  /\ UNCHANGED <<today, tasks, habits, habit_logs, weekly_reports, last,
                 jobvars>>

\* POST /api/v1/login
AuthLogin(u, password_ok) ==
  /\ steps < MaxAuthSteps
  /\ steps' = steps + 1
  /\ login(u, password_ok)

\* The row of token counts one more accepted refresh.
Accepted(rows, token) ==
  [i \in DOMAIN rows |->
     IF rows[i].token = token THEN [rows[i] EXCEPT !.accepted = @ + 1]
     ELSE rows[i]]

\* POST /api/v1/refresh.  A user row is never deleted, so the "User not
\* found" answer is not modelled.
refresh_token(token) ==
  \E db_token \in First(get_refresh_token(refresh_tokens, token)) :
    IF db_token = 0
      THEN /\ UNCHANGED refresh_tokens
           /\ AuthReply([call |-> "refresh", token |-> token, status |-> 401,
                         detail |-> "invalid"])
    ELSE IF today > refresh_tokens[db_token].expires_at
      THEN /\ refresh_tokens' = revoke_refresh_token(refresh_tokens, token)
           /\ AuthReply([call |-> "refresh", token |-> token, status |-> 401,
                         detail |-> "expired"])
    ELSE /\ refresh_tokens' =
              create_refresh_token(
                Accepted(revoke_refresh_token(refresh_tokens, token), token),
                refresh_tokens[db_token].user_id, today)
         /\ AuthReply([call |-> "refresh", token |-> token, status |-> 200,
                       refresh_token |-> Len(refresh_tokens) + 1])

\* POST /api/v1/logout
logout(token) ==
  /\ refresh_tokens' = revoke_refresh_token(refresh_tokens, token)
  /\ AuthReply([call |-> "logout", token |-> token, status |-> 200])

\* The clock moves on by a day, or by more than the life of a token.
AuthJumps == {1, REFRESH_TOKEN_EXPIRE_DAYS + 1}

AuthAdvance(k) ==
  /\ steps < MaxAuthSteps
  /\ steps' = steps + 1
  /\ today' = today + k
  /\ out' = <<>>
  /\ UNCHANGED <<tasks, habits, habit_logs, weekly_reports, last, jobvars,
                 authvars>>

\* The token values a client may present: the ones issued, and one that was
\* never issued.
Presented == 1..(Len(refresh_tokens) + 1)

NextAuth ==
  \/ \E u \in Clients, ok \in BOOLEAN : AuthLogin(u, ok)
  \/ \E t \in Presented : refresh_token(t)
  \/ \E t \in Presented : logout(t)
  \/ \E k \in AuthJumps : AuthAdvance(k)

SpecAuth == Init /\ [][NextAuth]_vars

\* No token was accepted by the refresh route more than once, and no
\* revoked token is returned by get_refresh_token.
SingleUse ==
  \A i \in DOMAIN refresh_tokens :
    /\ refresh_tokens[i].accepted <= 1
    /\ refresh_tokens[i].revoked
         => get_refresh_token(refresh_tokens, refresh_tokens[i].token) = {}

\* C19: a refresh token is accepted by the refresh route at most once: a
\* refresh that succeeds revokes the token it was given and issues a new
\* one; a revoked token is never returned by get_refresh_token and its
\* revoked flag never goes back to false; a refresh with an expired token
\* is answered 401 and revokes the token.
C19_RotationSingleUse ==
  /\ []SingleUse
  /\ [][/\ \A i \in DOMAIN refresh_tokens :
             /\ i \in DOMAIN refresh_tokens'
             /\ refresh_tokens[i].revoked => refresh_tokens'[i].revoked
             /\ refresh_tokens'[i].token = refresh_tokens[i].token
        /\ (IsCall(out', "refresh") /\ out'.status = 200)
             => /\ out'.token \in DOMAIN refresh_tokens
                /\ ~refresh_tokens[out'.token].revoked
                /\ refresh_tokens[out'.token].accepted = 0
                /\ today <= refresh_tokens[out'.token].expires_at
                /\ refresh_tokens'[out'.token].revoked
                /\ refresh_tokens'[out'.token].accepted = 1
                /\ Len(refresh_tokens') = Len(refresh_tokens) + 1
                /\ out'.refresh_token = Len(refresh_tokens')
                /\ out'.refresh_token # out'.token
                /\ ~refresh_tokens'[out'.refresh_token].revoked
        /\ ( /\ IsCall(out', "refresh")
             /\ out'.token \in DOMAIN refresh_tokens
             /\ today > refresh_tokens[out'.token].expires_at )
             => /\ out'.status = 401
                /\ refresh_tokens'[out'.token].revoked
                /\ Len(refresh_tokens') = Len(refresh_tokens)]_vars

\* C19 witness: a token was refreshed with success and presented again:
\* the second refresh is answered 401 and the token was accepted once.
C19_Witness ==
  /\ IsCall(out, "refresh")
  /\ out.status = 401
  /\ out.token \in DOMAIN refresh_tokens
  /\ refresh_tokens[out.token].accepted = 1
  /\ refresh_tokens[out.token].revoked
  /\ today <= refresh_tokens[out.token].expires_at

\* The row get_latest_report returns for u.
LatestRow(u) == weekly_reports[get_latest_report(u)]

\* The row get_latest_report returns has the greatest week_start of the
\* rows of its user.
LatestIsNewestWeek ==
  \A u \in Clients :
    get_latest_report(u) # 0 =>
      \A i \in ReportsOf(u) \ {get_latest_report(u)} :
        weekly_reports[i].week_start < LatestRow(u).week_start

\* After generate_weekly_report the row get_latest_report returns for its
\* user carries the text and the score the call wrote.
LatestIsLastWritten ==
  last # NoCall =>
    /\ get_latest_report(last.user) # 0
    /\ LatestRow(last.user).report = last.report
    /\ LatestRow(last.user).score = last.score
    /\ LatestRow(last.user).week_start = week_start(last.today)

\* C20: with generate_weekly_report called at days that never go back,
\* get_latest_report returns for each user the row with the greatest
\* week_start, that row carries the text and score of the latest
\* generate_weekly_report call for the user, and the rows of a user change
\* in no step other than a generate_weekly_report call for that user.
C20_LatestReportIsNewest ==
  /\ []LatestIsNewestWeek
  /\ []LatestIsLastWritten
  /\ [][\A u \in Clients :
          \/ IsCall(out', "generate_report_now") /\ out'.user = u
          \/ /\ \A i \in DOMAIN weekly_reports :
                  weekly_reports[i].user_id = u
                    => /\ i \in DOMAIN weekly_reports'
                       /\ weekly_reports'[i] = weekly_reports[i]
             /\ Len(weekly_reports') > Len(weekly_reports)
                  => weekly_reports'[Len(weekly_reports')].user_id # u]_vars

\* C20 witness: a user has the reports of two weeks, the second one
\* generated twice, and asks for the latest: the second row, with the text
\* of the last call.
C20_Witness ==
  /\ IsCall(out, "get_latest_report")
  /\ out.status = 200
  /\ out.id = 2
  /\ Len(weekly_reports) = 2
  /\ weekly_reports[1].user_id = out.user
  /\ weekly_reports[2].user_id = out.user
  /\ weekly_reports[1].week_start < weekly_reports[2].week_start
  /\ last # NoCall
  /\ last.user = out.user
  /\ last.existed
  /\ weekly_reports[2].report = last.report


\* ------------------------------------------------------------------------
\* SpecOwn: two users who each own a task, a habit and a completed log of
\* yesterday, and up to MaxOwnSteps calls of the routes of NextApi by
\* either of them, with their own ids and with the other user's.
\* ------------------------------------------------------------------------
MaxOwnSteps == 2

InitOwn ==
  /\ today = StartDay
  /\ \E s1 \in {"pending", "completed"}, s2 \in {"pending", "completed"} :
       tasks = <<[user_id |-> 1, title |-> "write", status |-> s1,
                  is_deleted |-> FALSE],
                 [user_id |-> 2, title |-> "write", status |-> s2,
                  is_deleted |-> FALSE]>>
  /\ habits = <<[user_id |-> 1, name |-> "read", is_deleted |-> FALSE],
                [user_id |-> 2, name |-> "read", is_deleted |-> FALSE]>>
  /\ habit_logs = SetToBag({LogRow(1, today - 1, TRUE),
                            LogRow(2, today - 1, TRUE)})
  /\ weekly_reports = <<>>
  /\ last = NoCall
  /\ steps = 0
  /\ out = <<>>
  /\ pc = [manual |-> "idle", batch |-> "idle"]
  /\ local = [manual |-> NoLocal, batch |-> NoLocal]
  /\ batch = NoBatch
  /\ refresh_tokens = <<>>

\* What get_tasks, get_habits, get_dashboard and generate_weekly_report
\* compute for user u.
ResultsFor(u) ==
  <<get_tasks(u, 1, 20), get_tasks(u, 2, 1),
    get_habits(u, 1, 20, today), get_habits(u, 2, 1, today),
    get_dashboard(u, today), ComputeReport(u, today)>>

\* The listing, dashboard and report values a client holds from its last
\* read, after a call by user v: another user's call leaves them with the
\* client, a call of the client itself drops them.
OwnView(v) ==
  IF out # <<>> /\ out.view # <<>> /\ out.view.user # v THEN out.view
  ELSE <<>>

\* The answer of a route that writes, to the call name(id) of user v.
OwnReply(name, id, v, found) ==
  /\ steps < MaxOwnSteps
  /\ steps' = steps + 1
  /\ out' = [call |-> name, user |-> v, id |-> id, status |-> Status(found),
             view |-> OwnView(v)]
  /\ UNCHANGED <<jobvars, authvars>>

OwnCreateTask(t, v) ==
  /\ create_task(t, v)
  /\ OwnReply("create_task", Len(tasks) + 1, v, TRUE)

OwnToggleTask(id, v) ==
  /\ toggle_task(id, v)
  /\ OwnReply("toggle_task", id, v, FindTask(id, v))

OwnEditTask(id, v, t) ==
  /\ edit_task(id, v, t)
  /\ OwnReply("edit_task", id, v, FindTask(id, v))

OwnDeleteTask(id, v) ==
  /\ delete_task(id, v)
  /\ OwnReply("delete_task", id, v, FindTask(id, v))

OwnCreateHabit(n, v) ==
  /\ create_habit(n, v)
  /\ OwnReply("create_habit", Len(habits) + 1, v, TRUE)

OwnEditHabit(id, v, n) ==
  /\ edit_habit(id, v, n)
  /\ OwnReply("edit_habit", id, v, FindHabit(id, v))

OwnDeleteHabit(id, v) ==
  /\ delete_habit(id, v)
  /\ OwnReply("delete_habit", id, v, FindHabit(id, v))

OwnLogHabit(h, d, c, v) ==
  /\ log_habit(h, d, c, v)
  /\ OwnReply("log_habit", h, v, FindHabit(h, v))

\* User u reads the listings, the dashboard and the report values.
OwnRead(u) ==
  Read([call |-> "read", user |-> u, id |-> 0, status |-> 200,
        view |-> [user |-> u, results |-> ResultsFor(u)]])

NextOwn ==
  \/ \E v \in Clients, t \in TaskTitles : OwnCreateTask(t, v)
  \/ \E v \in Clients, id \in TaskIds : OwnToggleTask(id, v)
  \/ \E v \in Clients, id \in TaskIds, t \in EditTitles : OwnEditTask(id, v, t)
  \/ \E v \in Clients, id \in TaskIds : OwnDeleteTask(id, v)
  \/ \E v \in Clients, n \in HabitNames : OwnCreateHabit(n, v)
  \/ \E v \in Clients, id \in HabitIds, n \in EditNames : OwnEditHabit(id, v, n)
  \/ \E v \in Clients, id \in HabitIds : OwnDeleteHabit(id, v)
  \/ \E v \in Clients, h \in HabitIds, d \in ApiDates(today), c \in BOOLEAN :
       OwnLogHabit(h, d, c, v)
  \/ \E u \in Clients : OwnRead(u)

SpecOwn == InitOwn /\ [][NextOwn]_vars

\* The values a client holds from its last read are the ones a read would
\* give now.
ViewStillTrue ==
  (out # <<>> /\ out.view # <<>>)
    => out.view.results = ResultsFor(out.view.user)


TaskCalls == {"toggle_task", "edit_task", "delete_task"}
HabitCalls == {"edit_habit", "delete_habit", "log_habit"}

\* C21: a call of toggle_task, edit_task, delete_task, edit_habit,
\* delete_habit or log_habit by user u changes no task, habit or habit log
\* of another user and answers 404 when the id is of another user's row;
\* and what get_tasks, get_habits, get_dashboard and generate_weekly_report
\* computed for a user at the user's last read is what they compute after
\* the calls other users made since.
C21_OwnershipIsolation ==
  /\ []ViewStillTrue
  /\ [][/\ (\E name \in TaskCalls \cup HabitCalls : IsCall(out', name))
             => /\ \A i \in DOMAIN tasks :
                     tasks[i].user_id # out'.user => tasks'[i] = tasks[i]
                /\ \A i \in DOMAIN habits :
                     habits[i].user_id # out'.user => habits'[i] = habits[i]
                /\ \A r \in BagToSet(habit_logs) \cup BagToSet(habit_logs') :
                     ( /\ r.habit_id \in DOMAIN habits
                       /\ habits[r.habit_id].user_id # out'.user )
                       => CopiesIn(r, habit_logs') = CopiesIn(r, habit_logs)
        /\ ( /\ \E name \in TaskCalls : IsCall(out', name)
             /\ out'.id \in DOMAIN tasks
             /\ tasks[out'.id].user_id # out'.user )
             => out'.status = 404
        /\ ( /\ \E name \in HabitCalls : IsCall(out', name)
             /\ out'.id \in DOMAIN habits
             /\ habits[out'.id].user_id # out'.user )
             => out'.status = 404]_vars

\* C21 witness: user 1 read the listings, the dashboard and the report
\* values, then user 2 called toggle_task with the id of the live pending
\* task of user 1: 404, the task is still pending and what user 1 read
\* still stands.
C21_Witness ==
  /\ IsCall(out, "toggle_task")
  /\ out.status = 404
  /\ out.user = 2
  /\ out.id \in DOMAIN tasks
  /\ tasks[out.id].user_id = 1
  /\ ~tasks[out.id].is_deleted
  /\ tasks[out.id].status = "pending"
  /\ out.view # <<>>
  /\ out.view.user = 1
  /\ out.view.results[5].total_tasks = 1

\* ------------------------------------------------------------------------
\* SpecPages: get_tasks and get_habits of user 1 on every store of up to
\* MaxPageRows tasks and habits, each row active, deleted or of user 2, for
\* the page numbers MinPage..MaxPage and the limits 1..MaxPageLimit.  page
\* and limit are query parameters of type int that the routes do not
\* check.
\* ------------------------------------------------------------------------
MaxPageRows == 4
MaxPage == 4
MaxPageLimit == 3
MinPage == 0 - 1

PageNumbers == MinPage..MaxPage
PageLimits == 1..MaxPageLimit

\* The owner and the is_deleted flag of a row: active, deleted, another
\* user's.
RowKinds ==
  {[user_id |-> 1, is_deleted |-> FALSE], [user_id |-> 1, is_deleted |-> TRUE],
   [user_id |-> 2, is_deleted |-> FALSE]}

InitPages ==
  /\ today = StartDay
  /\ \E n \in 0..MaxPageRows :
       \E ks \in [1..n -> RowKinds] :
         /\ tasks = [i \in 1..n |->
                       [user_id |-> ks[i].user_id, title |-> "write",
                        status |-> "pending",
                        is_deleted |-> ks[i].is_deleted]]
         /\ habits = [i \in 1..n |->
                        [user_id |-> ks[i].user_id, name |-> "read",
                         is_deleted |-> ks[i].is_deleted]]
  /\ habit_logs = EmptyBag
  /\ weekly_reports = <<>>
  /\ last = NoCall
  /\ steps = 0
  /\ out = <<>>
  /\ pc = [manual |-> "idle", batch |-> "idle"]
  /\ local = [manual |-> NoLocal, batch |-> NoLocal]
  /\ batch = NoBatch
  /\ refresh_tokens = <<>>

NextPages ==
  \/ \E p \in PageNumbers, l \in PageLimits : ApiGetTasks(1, <<p, l>>)
  \/ \E p \in PageNumbers, l \in PageLimits : ApiGetHabits(1, <<p, l>>)

SpecPages == InitPages /\ [][NextPages]_vars

\* max(1, ceil(total / limit)): the least k >= 1 with k * limit >= total.
CeilPages(total, limit) ==
  CHOOSE k \in 1..(total + 1) :
    /\ k * limit >= total
    /\ \A j \in 1..(k - 1) : j * limit < total

\* The ids on page q of the listing named call, for user u.
PageIds(call, u, q, limit) ==
  IF call = "get_tasks" THEN get_tasks(u, q, limit).items
  ELSE LET items == get_habits(u, q, limit, today).items
       IN  [i \in DOMAIN items |-> items[i].id]

\* The pages q, q + 1, ..., upto of a listing one after another.
RECURSIVE PagesFrom(_, _, _, _, _)
PagesFrom(call, u, q, upto, limit) ==
  IF q > upto THEN <<>>
  ELSE PageIds(call, u, q, limit) \o PagesFrom(call, u, q + 1, upto, limit)

\* The answer out of get_tasks or get_habits is as C22 says.
PageAnswerOk ==
  LET live == IF out.call = "get_tasks" THEN LiveTasks(out.user)
              ELSE LiveHabits(out.user)
      total == Cardinality(live)
      pages == CeilPages(total, out.body.limit)
      all == PagesFrom(out.call, out.user, 1, pages, out.body.limit)
  IN  /\ out.body.total = total
      /\ out.body.total_pages = pages
      /\ out.body.has_prev <=> out.body.page > 1
      /\ out.body.has_next <=> out.body.page < pages
      /\ Len(all) = total
      /\ {all[i] : i \in DOMAIN all} = live
      /\ \A q \in (pages + 1)..(pages + 2) :
           PageIds(out.call, out.user, q, out.body.limit) = <<>>

\* C22: for get_tasks and get_habits with limit >= 1, total is the number
\* of the user's active records, total_pages is max(1, ceil(total / limit)),
\* has_prev is true exactly when page > 1, has_next is true exactly when
\* page < total_pages, the pages 1..total_pages together hold every active
\* record exactly once and the pages beyond total_pages are empty.
C22_PagesCoverOnce ==
  (IsCall(out, "get_tasks") \/ IsCall(out, "get_habits")) => PageAnswerOk

\* C22 for the page numbers from 1 on: there the statement holds.
C22_PagesCoverOnceFromOne ==
  ( /\ IsCall(out, "get_tasks") \/ IsCall(out, "get_habits")
    /\ out.body.page >= 1 ) => PageAnswerOk

\* Three active records on pages of two: page 1 of 2 has a next page and
\* no previous one.
C22_Witness ==
  /\ IsCall(out, "get_habits")
  /\ out.body.limit = 2
  /\ out.body.page = 1
  /\ out.body.total = 3
  /\ out.body.total_pages = 2
  /\ out.body.has_next
  /\ ~out.body.has_prev
  /\ Len(out.body.items) = 2
  /\ Len(habits) = MaxPageRows

====
